---- MODULE Spec2Model ----
(***************************************************************************)
(* CIEDE2000.distance (src/src/ciede2000.py) as a state machine.           *)
(*                                                                         *)
(* Python floats are modelled as binary floating-point numbers             *)
(* [m |-> significand, e |-> exponent] of value m * 2^e, rounded to        *)
(* nearest-even after every operation like IEEE-754 doubles, with the      *)
(* exponent range of a double but a significand of MantBits bits, so that  *)
(* every product fits TLC's integers.  The functions of the math module    *)
(* are computed by range reduction and power series at the same precision. *)
(* inf and nan are not represented: only ** can leave the finite range for *)
(* the inputs drawn here, and ** raises OverflowError when it does.        *)
(* The arithmetic is written as functions, which TLC applies to values.    *)
(***************************************************************************)
EXTENDS Integers, Sequences, FiniteSets

VARIABLES lab1, lab2, pc, forward, reverse

vars == <<lab1, lab2, pc, forward, reverse>>

----
\* Python float: representation and rounding

MantBits == 14
MaxExp == 1024
MinExp == -1074
FixBits == 14

FP == [m : Int, e : Int]

Pow2Tab == <<1, 2, 4, 8, 16, 32, 64, 128, 256, 512, 1024, 2048, 4096, 8192,
             16384, 32768, 65536, 131072, 262144, 524288, 1048576, 2097152,
             4194304, 8388608, 16777216, 33554432, 67108864, 134217728,
             268435456, 536870912, 1073741824>>

Pow2(k) == Pow2Tab[k + 1]

BitLen4[n \in Nat] ==
    IF n >= 4 THEN (IF n >= 8 THEN 4 ELSE 3) ELSE IF n >= 2 THEN 2 ELSE n

BitLen8[n \in Nat] == IF n >= 16 THEN 4 + BitLen4[n \div 16] ELSE BitLen4[n]

BitLen16[n \in Nat] == IF n >= 256 THEN 8 + BitLen8[n \div 256] ELSE BitLen8[n]

\* the number of bits of n, 0 <= n < 2^31
BitLen[n \in Nat] ==
    IF n >= 65536 THEN 16 + BitLen16[n \div 65536] ELSE BitLen16[n]

Sign(i) == IF i < 0 THEN -1 ELSE IF i > 0 THEN 1 ELSE 0

Abs(i) == IF i < 0 THEN -i ELSE i

\* n / 2^k for n >= 0, rounded to nearest, ties to even
RoundShift[n \in Nat, k \in Nat] ==
    IF k = 0 THEN n
    ELSE IF k > 30 THEN 0
    ELSE LET q == n \div Pow2(k)
             r == n % Pow2(k)
             half == Pow2(k - 1)
         IN  IF r > half \/ (r = half /\ q % 2 = 1) THEN q + 1 ELSE q

Zero == [m |-> 0, e |-> 0]

\* results below the smallest subnormal double are flushed to zero
Flush(m, e) == IF e + MantBits - 1 < MinExp THEN Zero ELSE [m |-> m, e |-> e]

\* a significand q of up to MantBits + 1 bits after rounding
NormRound[s \in Int, q \in Nat, e \in Int] ==
    IF q = Pow2(MantBits) THEN Flush(s * Pow2(MantBits - 1), e + 1)
    ELSE Flush(s * q, e)

\* m of bl bits: shifted left, or rounded to MantBits bits
NormBits[m \in Int, e \in Int, bl \in Nat] ==
    IF bl <= MantBits
    THEN Flush(m * Pow2(MantBits - bl), e - (MantBits - bl))
    ELSE NormRound[Sign(m), RoundShift[Abs(m), bl - MantBits],
                   e + (bl - MantBits)]

\* the float nearest to m * 2^e
Norm[m \in Int, e \in Int] ==
    IF m = 0 THEN Zero ELSE NormBits[m, e, BitLen[Abs(m)]]

\* a finite double: below 2^MaxExp
Finite(x) == x.m = 0 \/ x.e + MantBits <= MaxExp

float[n \in Int] == Norm[n, 0]

fneg[x \in FP] == [m |-> -(x.m), e |-> x.e]

fabs[x \in FP] == [m |-> Abs(x.m), e |-> x.e]

\* hi + lo for hi.e >= lo.e: lo is below half an ulp of hi, or the sum is
\* exact before it is rounded
AddAligned[hi \in FP, lo \in FP] ==
    IF hi.e - lo.e > MantBits + 1 THEN hi
    ELSE Norm[hi.m * Pow2(hi.e - lo.e) + lo.m, lo.e]

fadd[x \in FP, y \in FP] ==
    IF x.m = 0 THEN y
    ELSE IF y.m = 0 THEN x
    ELSE IF x.e >= y.e THEN AddAligned[x, y]
    ELSE AddAligned[y, x]

fsub[x \in FP, y \in FP] == fadd[x, fneg[y]]

fmul[x \in FP, y \in FP] ==
    IF x.m = 0 \/ y.m = 0 THEN Zero ELSE Norm[x.m * y.m, x.e + y.e]

\* x / y for y # 0: the quotient with two guard bits and a sticky bit
DivRound[s \in Int, n \in Nat, d \in Nat, e \in Int] ==
    Norm[s * (2 * (n \div d) + (IF n % d = 0 THEN 0 ELSE 1)), e]

fdiv[x \in FP, y \in FP] ==
    IF x.m = 0 THEN Zero
    ELSE DivRound[Sign(x.m) * Sign(y.m),
                  Abs(x.m) * Pow2(MantBits + 2), Abs(y.m),
                  x.e - y.e - (MantBits + 2) - 1]

\* the float literal num / den (0.17 is Ratio(17, 100))
Ratio(num, den) == fdiv[float[num], float[den]]

flt[x \in FP, y \in FP] == fsub[x, y].m < 0

fle[x \in FP, y \in FP] == fsub[x, y].m <= 0

fgt[x \in FP, y \in FP] == flt[y, x]

fge[x \in FP, y \in FP] == fle[y, x]

\* x ** n, by repeated multiplication
pow[x \in FP, n \in Nat] == IF n = 0 THEN float[1] ELSE fmul[x, pow[x, n - 1]]

\* Newton's iteration from a guess g above the root, g2 the next guess
ISqrtFrom[n \in Nat, g \in Nat, g2 \in Nat] ==
    IF g2 >= g THEN g ELSE ISqrtFrom[n, g2, (g2 + n \div g2) \div 2]

\* floor of the square root of n, 0 < n < 2^31
ISqrt[n \in Nat] == ISqrtFrom[n, 46341, (46341 + n \div 46341) \div 2]

SqrtRound[n \in Nat, s \in Nat, e \in Int] ==
    Norm[2 * s + (IF s * s = n THEN 0 ELSE 1), (e - 16) \div 2 - 1]

\* the square root of m * 2^e, e even
SqrtEven[m \in Nat, e \in Int] == SqrtRound[m * 65536, ISqrt[m * 65536], e]

\* math.sqrt for x >= 0
sqrt[x \in FP] ==
    IF x.m = 0 THEN Zero
    ELSE IF x.e % 2 = 1 THEN SqrtEven[2 * x.m, x.e - 1]
    ELSE SqrtEven[x.m, x.e]

----
\* fixed-point kernels of the math module, scale 2^FixBits

One == Pow2(FixBits)

PiFix == 51472

HalfPiFix == PiFix \div 2

QuarterPiFix == PiFix \div 4

TwoPiFix == 2 * PiFix

Ln2Fix == 11357

Tan8Fix == 6786

\* round(x * 2^FixBits)
ToFix[x \in FP] ==
    LET s == x.e + FixBits
    IN  IF s >= 0 THEN x.m * Pow2(s)
        ELSE Sign(x.m) * RoundShift[Abs(x.m), -s]

FromFix(i) == Norm[i, -FixBits]

FixMul[a \in Int, b \in Int] == RoundShift[a * b, FixBits]

SinPoly[x \in Nat, x2 \in Nat] ==
    LET p5 == One - x2 \div 110
        p4 == One - FixMul[x2, p5] \div 72
        p3 == One - FixMul[x2, p4] \div 42
        p2 == One - FixMul[x2, p3] \div 20
        p1 == One - FixMul[x2, p2] \div 6
    IN  FixMul[x, p1]

\* sin on [0, pi/2]
SinQ[x \in Nat] == SinPoly[x, FixMul[x, x]]

SinFix[t \in Int] ==
    LET u == Abs(t) % TwoPiFix
        v == IF u > PiFix THEN u - PiFix ELSE u
        w == IF v > HalfPiFix THEN PiFix - v ELSE v
        s == IF u > PiFix THEN -Sign(t) ELSE Sign(t)
    IN  s * SinQ[w]

CosFix[t \in Int] == SinFix[Abs(t) + HalfPiFix]

AtanPoly[t \in Nat, t2 \in Nat] ==
    LET p5 == 1820 - FixMul[t2, 1489]
        p4 == 2341 - FixMul[t2, p5]
        p3 == 3277 - FixMul[t2, p4]
        p2 == 5461 - FixMul[t2, p3]
        p1 == One - FixMul[t2, p2]
    IN  FixMul[t, p1]

\* atan on [0, tan(pi/8)]
AtanSeries[t \in Nat] == AtanPoly[t, FixMul[t, t]]

\* atan on [0, 1]
AtanFix[t \in Nat] ==
    IF t <= Tan8Fix THEN AtanSeries[t]
    ELSE QuarterPiFix - AtanSeries[((One - t) * One) \div (One + t)]

\* exp(-r) on [0, ln 2)
ExpNegQ[r \in Nat] ==
    LET p7 == One - r \div 7
        p6 == One - FixMul[r, p7] \div 6
        p5 == One - FixMul[r, p6] \div 5
        p4 == One - FixMul[r, p5] \div 4
        p3 == One - FixMul[r, p4] \div 3
        p2 == One - FixMul[r, p3] \div 2
    IN  One - FixMul[r, p2]

----
\* math module

pi == Norm[PiFix, -FixBits]

\* below 1/8 the series is summed in floating point, keeping the relative
\* precision of small angles
SinSmall[x \in FP, x2 \in FP] ==
    fmul[x, fsub[float[1],
                 fmul[fdiv[x2, float[6]],
                      fsub[float[1], fdiv[x2, float[20]]]]]]

sin[x \in FP] ==
    IF x.m # 0 /\ x.e + MantBits <= -3 THEN SinSmall[x, fmul[x, x]]
    ELSE FromFix(SinFix[ToFix[x]])

cos[x \in FP] == FromFix(CosFix[ToFix[x]])

\* the angle of (ax, ay) in the first quadrant, ax > 0 and ay > 0
AtanFirst[ay \in FP, ax \in FP] ==
    IF fgt[ay, ax] THEN HalfPiFix - AtanFix[ToFix[fdiv[ax, ay]]]
    ELSE AtanFix[ToFix[fdiv[ay, ax]]]

\* the angle q1 of (|x|, |y|) moved to the quadrant of (x, y)
AtanQuadrant[y \in FP, x \in FP, q1 \in Nat] ==
    IF x.m < 0
    THEN FromFix(IF y.m < 0 THEN -(PiFix - q1) ELSE PiFix - q1)
    ELSE FromFix(IF y.m < 0 THEN -q1 ELSE q1)

atan2[y \in FP, x \in FP] ==
    IF y.m = 0 THEN (IF x.m >= 0 THEN Zero ELSE pi)
    ELSE IF x.m = 0
    THEN (IF y.m > 0 THEN fdiv[pi, float[2]] ELSE fneg[fdiv[pi, float[2]]])
    ELSE AtanQuadrant[y, x, AtanFirst[fabs[y], fabs[x]]]

\* math.exp for x <= 0
ExpNegFix[y \in Nat] == Norm[ExpNegQ[y % Ln2Fix], -FixBits - y \div Ln2Fix]

exp[x \in FP] ==
    IF fge[fneg[x], float[2048]] THEN Zero ELSE ExpNegFix[ToFix[fneg[x]]]

----
\* CIEDE2000.distance, formula by formula

K_25_7 == pow[float[25], 7]

Raise(kind, at) == [raised |-> kind, line |-> at]

\* Formula (2): sqrt[a ** 2 + b ** 2]
Formula2(a, b) == sqrt[fadd[pow[a, 2], pow[b, 2]]]

\* Formula (3)
Formula3(C1_ab, C2_ab) == fdiv[fadd[C1_ab, C2_ab], float[2]]

\* Formula (4)
Formula4(C_ab_average) ==
    LET C7 == pow[C_ab_average, 7]
    IN  fmul[Ratio(1, 2),
             fsub[float[1], sqrt[fdiv[C7, fadd[C7, K_25_7]]]]]

\* Formula (5): a' = (1 + G) * a
Formula5(G, a) == fmul[fadd[float[1], G], a]

\* Formula (6)
Formula6(a_, b_) == sqrt[fadd[pow[a_, 2], pow[b_, 2]]]

\* Formula (7)
Formula7(a_, b) ==
    IF b.m = 0 /\ a_.m = 0 THEN Zero
    ELSE IF a_.m >= 0 THEN fadd[atan2[b, a_], fmul[float[2], pi]]
    ELSE atan2[b, a_]

\* Formula (8)
Formula8(L1_, L2_) == fsub[L2_, L1_]

\* Formula (9)
Formula9(C1_, C2_) == fsub[C2_, C1_]

\* Formula (10): the branch taken
Formula10Branch(h1_, h2_, C1_, C2_) ==
    LET dh_ == fsub[h2_, h1_]
    IN  IF fmul[C1_, C2_].m = 0 THEN "zero"
        ELSE IF fgt[dh_, pi] THEN "minus"
        ELSE IF flt[dh_, fneg[pi]] THEN "plus"
        ELSE "none"

\* Formula (10) without its test of the chroma product
Formula10NoZeroTest(h1_, h2_, C1_, C2_) ==
    LET dh_ == fsub[h2_, h1_]
    IN  IF fgt[dh_, pi] THEN fsub[dh_, fmul[float[2], pi]]
        ELSE IF flt[dh_, fneg[pi]] THEN fadd[dh_, fmul[float[2], pi]]
        ELSE dh_

\* Formula (10)
Formula10(h1_, h2_, C1_, C2_) ==
    LET dh_ == fsub[h2_, h1_]
    IN  IF fmul[C1_, C2_].m = 0 THEN Zero
        ELSE IF fgt[dh_, pi] THEN fsub[dh_, fmul[float[2], pi]]
        ELSE IF flt[dh_, fneg[pi]] THEN fadd[dh_, fmul[float[2], pi]]
        ELSE dh_

\* Formula (11) with cos written for sin
Formula11Cos(C1_, C2_, dh_) ==
    fmul[fmul[float[2], sqrt[fmul[C1_, C2_]]], cos[fdiv[dh_, float[2]]]]

\* Formula (11)
Formula11(C1_, C2_, dh_) ==
    fmul[fmul[float[2], sqrt[fmul[C1_, C2_]]], sin[fdiv[dh_, float[2]]]]

\* Formula (12) without its parentheses: L1_ + L2_ / 2
Formula12NoParentheses(L1_, L2_) == fadd[L1_, fdiv[L2_, float[2]]]

\* Formula (12)
Formula12(L1_, L2_) == fdiv[fadd[L1_, L2_], float[2]]

\* Formula (13)
Formula13(C1_, C2_) == fdiv[fadd[C1_, C2_], float[2]]

\* Formula (14)
Formula14(h1_, h2_, C1_, C2_) ==
    LET dh == fabs[fsub[h1_, h2_]]
        sh == fadd[h1_, h2_]
        C1_C2_ == fmul[C1_, C2_]
        two_pi == fmul[float[2], pi]
    IN  IF fle[dh, pi] /\ C1_C2_.m # 0
        THEN fdiv[fadd[h1_, h2_], float[2]]
        ELSE IF fgt[dh, pi] /\ flt[sh, two_pi] /\ C1_C2_.m # 0
        THEN fadd[fdiv[fadd[h1_, h2_], float[2]], pi]
        ELSE IF fgt[dh, pi] /\ fge[sh, two_pi] /\ C1_C2_.m # 0
        THEN fsub[fdiv[fadd[h1_, h2_], float[2]], pi]
        ELSE fadd[h1_, h2_]

\* Formula (14): the branch taken
Formula14Branch(h1_, h2_, C1_, C2_) ==
    LET dh == fabs[fsub[h1_, h2_]]
        sh == fadd[h1_, h2_]
        C1_C2_ == fmul[C1_, C2_]
        two_pi == fmul[float[2], pi]
    IN  IF fle[dh, pi] /\ C1_C2_.m # 0 THEN "mean"
        ELSE IF fgt[dh, pi] /\ flt[sh, two_pi] /\ C1_C2_.m # 0
        THEN "mean + pi"
        ELSE IF fgt[dh, pi] /\ fge[sh, two_pi] /\ C1_C2_.m # 0
        THEN "mean - pi"
        ELSE "sum"

\* Formula (15)
Formula15(h_average_) ==
    LET t1 == fmul[Ratio(17, 100),
                   cos[fsub[h_average_, fdiv[pi, float[6]]]]]
        t2 == fmul[Ratio(24, 100), cos[fmul[float[2], h_average_]]]
        t3 == fmul[Ratio(32, 100),
                   cos[fadd[fmul[float[3], h_average_], fdiv[pi, float[30]]]]]
        t4 == fmul[Ratio(2, 10),
                   cos[fsub[fmul[float[4], h_average_],
                            fdiv[fmul[float[63], pi], float[180]]]]]
    IN  fsub[fadd[fadd[fsub[float[1], t1], t2], t3], t4]

\* Formula (16): the mean hue in degrees after the single correction
Formula16Deg(h_average_) ==
    LET h_average_deg_ == fdiv[fmul[h_average_, float[180]], pi]
    IN  IF h_average_deg_.m < 0 THEN fadd[h_average_deg_, float[360]]
        ELSE IF fgt[h_average_deg_, float[360]]
        THEN fsub[h_average_deg_, float[360]]
        ELSE h_average_deg_

\* Formula (16): dTheta
Formula16(h_average_deg_) ==
    fmul[float[30],
         exp[fneg[pow[fdiv[fsub[h_average_deg_, float[275]], float[25]], 2]]]]

\* Formula (17) without C_average_ ** 7 in the denominator
Formula17NoSum(C_average_) ==
    fmul[float[2], sqrt[fdiv[pow[C_average_, 7], K_25_7]]]

\* Formula (17)
Formula17(C_average_) ==
    LET C7 == pow[C_average_, 7]
    IN  fmul[float[2], sqrt[fdiv[C7, fadd[C7, K_25_7]]]]

\* Formula (18): L_50
Formula18L50(L_average_) == pow[fsub[L_average_, float[50]], 2]

\* Formula (18): S_L
Formula18(L_50) ==
    fadd[float[1],
         fdiv[fmul[Ratio(15, 1000), L_50], sqrt[fadd[float[20], L_50]]]]

\* Formula (19)
Formula19(C_average_) == fadd[float[1], fmul[Ratio(45, 1000), C_average_]]

\* Formula (20)
Formula20(C_average_, T) ==
    fadd[float[1], fmul[fmul[Ratio(15, 1000), C_average_], T]]

\* Formula (21)
Formula21(dTheta, R_C) ==
    fmul[fneg[sin[fdiv[fmul[dTheta, pi], float[90]]]], R_C]

\* Formula (22): the radicand of the final square root
Formula22(f_L, f_C, f_H, R_T) ==
    fadd[fadd[fadd[pow[f_L, 2], pow[f_C, 2]], pow[f_H, 2]],
         fmul[fmul[R_T, f_C], f_H]]

\* lines 26-38: the colours split on their channels, C_ab of each, G
Formulas1to4(c1, c2) ==
    LET L1 == c1[1]
        a1 == c1[2]
        b1 == c1[3]
        L2 == c2[1]
        a2 == c2[2]
        b2 == c2[3]
        C_ab_average == Formula3(Formula2(a1, b1), Formula2(a2, b2))
    IN  IF ~Finite(pow[a1, 2]) \/ ~Finite(pow[b1, 2])
        THEN Raise("OverflowError", 33)
        ELSE IF ~Finite(pow[a2, 2]) \/ ~Finite(pow[b2, 2])
        THEN Raise("OverflowError", 34)
        ELSE IF ~Finite(pow[C_ab_average, 7])
        THEN Raise("OverflowError", 38)
        ELSE [raised |-> "none",
              L1 |-> L1, a1 |-> a1, b1 |-> b1,
              L2 |-> L2, a2 |-> a2, b2 |-> b2,
              G |-> Formula4(C_ab_average)]

\* lines 40-67: L', a', b', C' and h' of each colour
Formulas5to7(r) ==
    LET a1_ == Formula5(r.G, r.a1)
        a2_ == Formula5(r.G, r.a2)
        b1_ == r.b1
        b2_ == r.b2
    IN  IF r.raised # "none" THEN r
        ELSE IF ~Finite(pow[a1_, 2])
        THEN Raise("OverflowError", 51)
        ELSE IF ~Finite(pow[a2_, 2])
        THEN Raise("OverflowError", 52)
        ELSE [raised |-> "none",
              L1_ |-> r.L1, L2_ |-> r.L2,
              C1_ |-> Formula6(a1_, b1_), C2_ |-> Formula6(a2_, b2_),
              h1_ |-> Formula7(a1_, r.b1), h2_ |-> Formula7(a2_, r.b2)]

\* lines 69-104: the differences and the averages
Formulas8to14(r) ==
    LET dh_ == Formula10(r.h1_, r.h2_, r.C1_, r.C2_)
    IN  IF r.raised # "none" THEN r
        ELSE [raised |-> "none",
              C1_ |-> r.C1_, C2_ |-> r.C2_, h1_ |-> r.h1_, h2_ |-> r.h2_,
              dL_ |-> Formula8(r.L1_, r.L2_),
              dC_ |-> Formula9(r.C1_, r.C2_),
              branch |-> Formula10Branch(r.h1_, r.h2_, r.C1_, r.C2_),
              dh_ |-> dh_,
              dH_ |-> Formula11(r.C1_, r.C2_, dh_),
              L_average_ |-> Formula12(r.L1_, r.L2_),
              C_average_ |-> Formula13(r.C1_, r.C2_),
              mean |-> Formula14Branch(r.h1_, r.h2_, r.C1_, r.C2_),
              h_average_ |-> Formula14(r.h1_, r.h2_, r.C1_, r.C2_)]

\* lines 106-135: T, dTheta, R_C, S_L, S_C, S_H, R_T
Formulas15to21(r) ==
    LET T == Formula15(r.h_average_)
        h_average_deg_ == Formula16Deg(r.h_average_)
        dTheta == Formula16(h_average_deg_)
        R_C == Formula17(r.C_average_)
        L_50 == Formula18L50(r.L_average_)
    IN  IF r.raised # "none" THEN r
        ELSE IF ~Finite(pow[r.C_average_, 7])
        THEN Raise("OverflowError", 122)
        ELSE IF ~Finite(L_50)
        THEN Raise("OverflowError", 125)
        ELSE [raised |-> "none",
              C1_ |-> r.C1_, C2_ |-> r.C2_, h1_ |-> r.h1_, h2_ |-> r.h2_,
              dL_ |-> r.dL_, dC_ |-> r.dC_, branch |-> r.branch,
              dh_ |-> r.dh_, dH_ |-> r.dH_,
              L_average_ |-> r.L_average_, C_average_ |-> r.C_average_,
              mean |-> r.mean, h_average_ |-> r.h_average_,
              T |-> T, h_average_deg_ |-> h_average_deg_, dTheta |-> dTheta,
              R_C |-> R_C,
              S_L |-> Formula18(L_50),
              S_C |-> Formula19(r.C_average_),
              S_H |-> Formula20(r.C_average_, T),
              R_T |-> Formula21(dTheta, R_C)]

\* lines 137-144: f_L, f_C, f_H and delta_E_00
Formula22Result(r) ==
    LET k_L == float[1]
        k_C == float[1]
        k_H == float[1]
        f_L == fdiv[fdiv[r.dL_, k_L], r.S_L]
        f_C == fdiv[fdiv[r.dC_, k_C], r.S_C]
        f_H == fdiv[fdiv[r.dH_, k_H], r.S_H]
    IN  IF r.raised # "none" THEN r
        ELSE IF r.S_L.m = 0 THEN Raise("ZeroDivisionError", 139)
        ELSE IF r.S_C.m = 0 THEN Raise("ZeroDivisionError", 140)
        ELSE IF r.S_H.m = 0 THEN Raise("ZeroDivisionError", 141)
        ELSE IF ~Finite(pow[f_L, 2]) \/ ~Finite(pow[f_C, 2])
                \/ ~Finite(pow[f_H, 2])
        THEN Raise("OverflowError", 142)
        ELSE [raised |-> "none",
              C1_ |-> r.C1_, C2_ |-> r.C2_, h1_ |-> r.h1_, h2_ |-> r.h2_,
              dL_ |-> r.dL_, dC_ |-> r.dC_, branch |-> r.branch,
              dh_ |-> r.dh_, dH_ |-> r.dH_,
              L_average_ |-> r.L_average_, C_average_ |-> r.C_average_,
              mean |-> r.mean, h_average_ |-> r.h_average_,
              T |-> r.T, h_average_deg_ |-> r.h_average_deg_,
              dTheta |-> r.dTheta, R_C |-> r.R_C,
              S_L |-> r.S_L, S_C |-> r.S_C, S_H |-> r.S_H, R_T |-> r.R_T,
              f_L |-> f_L, f_C |-> f_C, f_H |-> f_H,
              radicand |-> Formula22(f_L, f_C, f_H, r.R_T)]

\* line 142: math.sqrt raises ValueError on a negative radicand
Return(r) ==
    IF r.raised # "none" THEN r
    ELSE IF r.radicand.m < 0
    THEN [raised |-> "ValueError", line |-> 142, radicand |-> r.radicand]
    ELSE [raised |-> "none",
          C1_ |-> r.C1_, C2_ |-> r.C2_, h1_ |-> r.h1_, h2_ |-> r.h2_,
          dL_ |-> r.dL_, dC_ |-> r.dC_, branch |-> r.branch,
          dh_ |-> r.dh_, dH_ |-> r.dH_,
          L_average_ |-> r.L_average_, C_average_ |-> r.C_average_,
          mean |-> r.mean, h_average_ |-> r.h_average_,
          T |-> r.T, h_average_deg_ |-> r.h_average_deg_,
          dTheta |-> r.dTheta, R_C |-> r.R_C,
          S_L |-> r.S_L, S_C |-> r.S_C, S_H |-> r.S_H, R_T |-> r.R_T,
          f_L |-> r.f_L, f_C |-> r.f_C, f_H |-> r.f_H,
          radicand |-> r.radicand,
          delta_E_00 |-> sqrt[r.radicand]]

\* CIEDE2000.distance: the record of its intermediate values and its result,
\* or of the exception it raises.  Each group of formulas is applied to the
\* values of the group before it.
distance(c1, c2) ==
    CHOOSE result \in
        {Return(s4) : s4 \in
            {Formula22Result(s3) : s3 \in
                {Formulas15to21(s2) : s2 \in
                    {Formulas8to14(s1) : s1 \in
                        {Formulas5to7(s0) : s0 \in
                            {Formulas1to4(c1, c2)}}}}}} : TRUE

----
\* the callers: TestCIEDE2000.test_distance_round_4 calls distance on a pair
\* of Lab colours, then on the reversed pair

MaxL == 2

LValues == {50 * i : i \in 0..MaxL}

ABValues == {-40, -8, 0, 8, 40}

Lab == {<<float[L], float[a], float[b]>> :
            L \in LValues, a \in ABValues, b \in ABValues}

NotCalled == [raised |-> "not called"]

Init ==
    /\ lab1 \in Lab
    /\ lab2 \in Lab
    /\ pc = "call"
    /\ forward = NotCalled
    /\ reverse = NotCalled

Forward ==
    /\ pc = "call"
    /\ forward' = distance(lab1, lab2)
    /\ pc' = IF forward'.raised = "none" THEN "reversed call" ELSE "raised"
    /\ UNCHANGED <<lab1, lab2, reverse>>

Reverse ==
    /\ pc = "reversed call"
    /\ reverse' = distance(lab2, lab1)
    /\ pc' = IF reverse'.raised = "none" THEN "done" ELSE "raised"
    /\ UNCHANGED <<lab1, lab2, forward>>

Next == Forward \/ Reverse

Spec == Init /\ [][Next]_vars

\* the same calls on colours with components of large magnitude
BigExps == {0, 100, 200, 600}

Scale(x, k) == IF x.m = 0 THEN Zero ELSE [m |-> x.m, e |-> x.e + k]

WideLab ==
    {<<float[50], Scale(float[a], k), Scale(float[b], k)>> :
        a \in {-8, 0, 8}, b \in {-8, 0, 8}, k \in BigExps}
    \cup {<<Scale(float[50], k), Zero, Zero>> : k \in BigExps}

InitWide ==
    /\ lab1 \in WideLab
    /\ lab2 \in WideLab
    /\ pc = "call"
    /\ forward = NotCalled
    /\ reverse = NotCalled

SpecWide == InitWide /\ [][Next]_vars

----
\* properties of distance

Returned(r) == r.raised = "none"

Calls == {forward, reverse}

Achromatic(c) == c[2].m = 0 /\ c[3].m = 0

\* C1: distance is symmetric.  The call on the reversed pair returns exactly
\* the value of the call on the pair (and never raises after that call
\* returned); dL', dC' and dH' change sign, the weights S_L, S_C, S_H, T and
\* R_T are the same, also when formula (10) wraps the hue difference and
\* formula (14) shifts the mean hue.
C1_Symmetry ==
    /\ pc = "raised" => ~Returned(forward)
    /\ pc = "done" =>
        /\ reverse.delta_E_00 = forward.delta_E_00
        /\ reverse.dL_ = fneg[forward.dL_]
        /\ reverse.dC_ = fneg[forward.dC_]
        /\ reverse.dH_ = fneg[forward.dH_]
        /\ reverse.T = forward.T
        /\ reverse.S_L = forward.S_L
        /\ reverse.S_C = forward.S_C
        /\ reverse.S_H = forward.S_H
        /\ reverse.R_T = forward.R_T

\* both calls made on a pair whose hue difference is wrapped one way by the
\* call and the other way by the reversed call, with a shifted mean hue and
\* non-zero dC', dH' and R_T
C1_Witness ==
    /\ pc = "done"
    /\ forward.branch = "plus"
    /\ reverse.branch = "minus"
    /\ forward.mean # "mean"
    /\ forward.dC_.m # 0
    /\ forward.dH_.m # 0
    /\ forward.R_T.m # 0

\* C3: distance(c, c) is 0: the call returns, dL', dC', dh' and dH' are
\* zero, the radicand is zero and so is the result.
C3_Identity ==
    lab1 = lab2 =>
        /\ pc # "raised"
        /\ pc # "call" =>
            /\ forward.dL_ = Zero
            /\ forward.dC_ = Zero
            /\ forward.dh_ = Zero
            /\ forward.dH_ = Zero
            /\ forward.radicand = Zero
            /\ forward.delta_E_00 = Zero

\* distance was called on twice the same chromatic colour, of a hue that
\* formula (7) leaves negative
C3_Witness ==
    /\ pc = "done"
    /\ lab1 = lab2
    /\ forward.C1_.m # 0
    /\ forward.h1_.m < 0

\* C4: the value distance returns is never negative: the radicand of the
\* final square root is never negative (math.sqrt never raises ValueError),
\* and |R_T| stays below 2.
C4_NonNegative ==
    \A r \in Calls :
        /\ r.raised # "ValueError"
        /\ Returned(r) =>
            /\ r.radicand.m >= 0
            /\ r.delta_E_00.m >= 0
            /\ flt[fabs[r.R_T], float[2]]

\* distance returned for a pair whose rotation term R_T * f_C * f_H is
\* negative, with |R_T| above 1
C4_Witness ==
    /\ pc = "done"
    /\ fmul[fmul[forward.R_T, forward.f_C], forward.f_H].m < 0
    /\ fgt[fabs[forward.R_T], float[1]]

\* C5: distance raises no exception, whatever the finite Lab triples.
C5_Total == pc # "raised"

\* |L2 - L1| / S_L with S_L of formula (18)
PureLightness(L1, L2) ==
    LET L_50 == pow[fsub[fdiv[fadd[L1, L2], float[2]], float[50]], 2]
        S_L == fadd[float[1],
                    fdiv[fmul[Ratio(15, 1000), L_50],
                         sqrt[fadd[float[20], L_50]]]]
    IN  fdiv[fabs[fsub[L2, L1]], S_L]

\* C6: when both colours have a = b = 0, h1' = h2' = 0, dh', dH', dC' and
\* R_T are 0, S_H is 1 and distance returns |L2 - L1| / S_L; and dh' and dH'
\* are 0 whenever C1' * C2' is 0.
C6_Achromatic ==
    /\ (Achromatic(lab1) /\ Achromatic(lab2)) =>
        /\ pc # "raised"
        /\ pc # "call" =>
            /\ forward.h1_ = Zero
            /\ forward.h2_ = Zero
            /\ forward.dh_ = Zero
            /\ forward.dH_ = Zero
            /\ forward.dC_ = Zero
            /\ forward.R_T = Zero
            /\ forward.S_H = float[1]
            /\ forward.delta_E_00 = PureLightness(lab1[1], lab2[1])
    /\ \A r \in Calls :
        (Returned(r) /\ fmul[r.C1_, r.C2_].m = 0) =>
            (r.dh_ = Zero /\ r.dH_ = Zero)

\* distance returned for two achromatic colours of different lightness
C6_Witness ==
    /\ pc = "done"
    /\ Achromatic(lab1)
    /\ Achromatic(lab2)
    /\ lab1[1] # lab2[1]
    /\ forward.delta_E_00.m > 0

\* two colours of the same a > 0 and of opposite b, |b| <= a: the same
\* chroma, on either side of the 0/360 degree hue boundary
Straddles(c1, c2) ==
    /\ c1[2].m > 0
    /\ c2[2] = c1[2]
    /\ c1[3].m # 0
    /\ c2[3] = fneg[c1[3]]
    /\ fle[fabs[c1[3]], c1[2]]

\* C7: for a pair that straddles the 0/360 degree hue boundary, formula (10)
\* takes a wrapping branch and |dH'| is smaller than the one computed from
\* the unwrapped h2' - h1'.
C7_WrapTaken ==
    (pc # "call" /\ Straddles(lab1, lab2)) =>
        /\ forward.branch \in {"minus", "plus"}
        /\ flt[fabs[forward.dH_],
               fabs[Formula11(forward.C1_, forward.C2_,
                              fsub[forward.h2_, forward.h1_])]]

\* C8: when C1' * C2' # 0, the dh' of formula (10) lies in (-pi, pi].
C8_HueDifferenceRange ==
    \A r \in Calls :
        (Returned(r) /\ fmul[r.C1_, r.C2_].m # 0) =>
            (fgt[r.dh_, fneg[pi]] /\ fle[r.dh_, pi])

\* the angular distance of two angles, in units of 2^-FixBits radians
AngularDistance(x, y) ==
    LET d == Abs(ToFix[x] - ToFix[y]) % TwoPiFix
    IN  IF d > PiFix THEN TwoPiFix - d ELSE d

\* C9: when C1' * C2' # 0, the mean hue of formula (14) is, modulo 2 pi, the
\* midpoint of the shorter arc between h1' and h2': its angular distance
\* from each is at most pi / 2 (up to the rounding of the angles).
C9_MeanHueOnShorterArc ==
    \A r \in Calls :
        (Returned(r) /\ fmul[r.C1_, r.C2_].m # 0) =>
            /\ AngularDistance(r.h_average_, r.h1_) <= HalfPiFix + 16
            /\ AngularDistance(r.h_average_, r.h2_) <= HalfPiFix + 16

\* C10: the mean hue in degrees that enters dTheta lies in [0, 360).
C10_MeanHueDegreesRange ==
    \A r \in Calls :
        Returned(r) =>
            (r.h_average_deg_.m >= 0 /\ flt[r.h_average_deg_, float[360]])

====
